---------------------------- MODULE Spec2Model ----------------------------
(***************************************************************************)
(* A model of the dapptoon launcher (main.go, followed here in its         *)
(* embedded-bundle build; the filesystem-backed build has the same         *)
(* control flow).  The process has three threads of control: main(), the   *)
(* listener goroutine started by startServer(), and the dispatch goroutine *)
(* started by onReady().  One action is one statement of one of them.      *)
(* Strings are TLA+ strings, built with \o and ToString, so that the       *)
(* rendering of the LAN URL is computed and not assumed.                   *)
(***************************************************************************)
EXTENDS Integers, Sequences, FiniteSets, TLC

(***************************************************************************)
(* Bounds of the model.                                                    *)
(***************************************************************************)
\* number of menu clicks the user makes in one run
MaxClicks == 2
\* clicks that can wait on one ClickedCh at the same time
MaxPending == 1
\* length of the interface address list in the process model
MaxAddrs == 1
\* length of the interface address list when getLANIP is checked alone
MaxLocateAddrs == 3
\* HTTP requests served in one run of the process model
MaxRequests == 1
\* calls of deletePost in one run of the web app
MaxDeletes == 2
\* reloads started by the refresh interval or a change event and in flight
MaxRefreshes == 1

(***************************************************************************)
(* Program constants.                                                      *)
(***************************************************************************)
port == 8000

\* runtime.GOOS: the three platforms the code names, and one it does not
GOOSValues == {"linux", "windows", "darwin", "freebsd"}

MenuActions == {"OpenApp", "CopyURL", "ShowQR", "Quit"}

\* the titles given to systray.AddMenuItem, in the order of the calls
MenuTitles == <<"Open App", "Copy LAN URL", "Show QR Code", "Quit">>

LocalURL == "http://localhost:8000"

QRFile == "lan_qr.png"

(***************************************************************************)
(* net.IP and net.Addr.  An IP is a record: family v4 with four bytes, or  *)
(* family v6 with a textual name.  An interface address is a net.IPNet     *)
(* or another net.Addr implementation (net.IPAddr).                        *)
(***************************************************************************)
V4(a, b, c, d) == [fam |-> "v4", b |-> <<a, b, c, d>>, name |-> ""]

V6(n) == [fam |-> "v6", b |-> <<>>, name |-> n]

IPNet(ip) == [type |-> "IPNet", ip |-> ip]

IPAddr(ip) == [type |-> "IPAddr", ip |-> ip]

\* net.IP.IsLoopback: 127.0.0.0/8 for IPv4, ::1 for IPv6
IsLoopback(ip) ==
    IF ip.fam = "v4" THEN ip.b[1] = 127 ELSE ip.name = "::1"

\* net.IP.To4: the four bytes of an IPv4 address, nil for anything else
To4(ip) == IF ip.fam = "v4" THEN ip.b ELSE <<>>

\* net.IP.String of a 4-byte address: dotted decimal
IP4String(b) ==
    ToString(b[1]) \o "." \o ToString(b[2]) \o "." \o ToString(b[3])
        \o "." \o ToString(b[4])

\* the loop of getLANIP over addrs[i..]
RECURSIVE ScanAddrs(_, _)
ScanAddrs(addrs, i) ==
    IF i > Len(addrs) THEN ""
    ELSE IF addrs[i].type = "IPNet" /\ ~IsLoopback(addrs[i].ip)
              /\ To4(addrs[i].ip) # <<>>
         THEN IP4String(To4(addrs[i].ip))
         ELSE ScanAddrs(addrs, i + 1)

\* a getLANIP that forgets the loopback test
getLANIP_noLoopbackTest(ifs) ==
    IF ifs.err THEN ""
    ELSE LET first == { i \in 1..Len(ifs.addrs) :
                          ifs.addrs[i].type = "IPNet"
                          /\ To4(ifs.addrs[i].ip) # <<>> }
         IN IF first = {} THEN ""
            ELSE IP4String(To4(ifs.addrs[
                     CHOOSE i \in first : \A j \in first : i <= j].ip))

\* getLANIP: "" when net.InterfaceAddrs fails, else the scan
getLANIP(ifs) == IF ifs.err THEN "" ELSE ScanAddrs(ifs.addrs, 1)

\* fmt.Sprintf("http://%s:%d", lanIP, port)
SprintfURL(host, p) == "http://" \o host \o ":" \o ToString(p)


(***************************************************************************)
(* The static content source (http.Dir("./dist") or the embedded dist      *)
(* tree) and http.FileServer.  A file name is a sequence of path segments; *)
(* the source maps file names to bodies, and its directories are the       *)
(* proper prefixes of its file names (the root included).  A request path  *)
(* is a cleaned URL path: its segments and whether it ends in "/".         *)
(***************************************************************************)
IndexPage == "index.html"

IsPrefix(s, t) == Len(s) <= Len(t) /\ SubSeq(t, 1, Len(s)) = s

IsFile(src, name) == name \in DOMAIN src

IsDir(src, name) ==
    name = <<>> \/ \E f \in DOMAIN src : IsPrefix(name, f) /\ name # f

\* fs.Open succeeds
Exists(src, name) == IsFile(src, name) \/ IsDir(src, name)

Last(s) == s[Len(s)]

\* strings.HasSuffix(r.URL.Path, "/index.html")
HasIndexSuffix(path) ==
    ~path.slash /\ Len(path.segs) > 0 /\ Last(path.segs) = IndexPage

Redirect(loc) == [status |-> 301, kind |-> "redirect", body |-> "", loc |-> loc]

NotFound ==
    [status |-> 404, kind |-> "error", body |-> "404 page not found", loc |-> ""]

\* serveContent: the body is copied unless the method is HEAD
Content(method, body) ==
    [status |-> 200, kind |-> "file",
     body |-> IF method = "HEAD" THEN "" ELSE body, loc |-> ""]

\* dirList: an HTML listing of the directory
Listing(method) ==
    [status |-> 200, kind |-> "listing", body |-> "", loc |-> ""]

\* path.Clean(upath) of a cleaned path: the trailing slash goes
Clean(path) == path.segs

\* path.Base of the URL path
Base(path) == Last(path.segs)

\* serveFile(w, r, fs, name, redirect = true) of net/http
serveFile(src, method, path, name) ==
    IF HasIndexSuffix(path) THEN Redirect("./")
    ELSE IF ~Exists(src, name) THEN NotFound
    ELSE IF IsDir(src, name)
         THEN IF ~path.slash
              THEN Redirect(Base(path) \o "/")
              ELSE IF IsFile(src, name \o <<IndexPage>>)
                   THEN Content(method, src[name \o <<IndexPage>>])
                   ELSE Listing(method)
         ELSE IF path.slash
              THEN Redirect("../" \o Base(path))
              ELSE Content(method, src[name])

RootPath == [segs |-> <<>>, slash |-> TRUE]

\* a handler that answers an unmatched path with the root index document
ServeHTTP_spaFallback(src, method, path) ==
    IF Exists(src, Clean(path))
    THEN serveFile(src, method, path, Clean(path))
    ELSE serveFile(src, method, RootPath, <<>>)

\* a handler that opens the last segment of the path instead of the path
ServeHTTP_baseName(src, method, path) ==
    serveFile(src, method, path,
              IF path.segs = <<>> THEN <<>> ELSE <<Base(path)>>)

MethodNotAllowed ==
    [status |-> 405, kind |-> "error", body |-> "Method Not Allowed", loc |-> ""]

\* a handler that serves GET and HEAD only
ServeHTTP_getAndHeadOnly(src, method, path) ==
    IF method \in {"GET", "HEAD"}
    THEN serveFile(src, method, path, Clean(path))
    ELSE MethodNotAllowed

\* the handler registered on "/": http.FileServer over the content source
ServeHTTP(src, method, path) == serveFile(src, method, path, Clean(path))

(***************************************************************************)
(* State.                                                                  *)
(***************************************************************************)
VARIABLES
    GOOS,        \* runtime.GOOS
    ifaces,      \* what net.InterfaceAddrs returns: [err, addrs]
    portFree,    \* whether :8000 can be bound
    content,     \* the static content source under dist
    mainPc,      \* main(): "main", "startServer", "run", "loop", "exit"
    lanIP,       \* main's local lanIP
    lanURL,      \* the global lanURL
    stdout,      \* lines printed with fmt.Println
    log,         \* lines written by the log package
    srvPc,       \* listener goroutine: "none", "starting", "listening", "failed"
    bindCount,   \* calls of http.ListenAndServe
    req,         \* the last HTTP request: [method, path]
    resp,        \* the response to it
    served,      \* HTTP requests answered
    exited,      \* the process has ended
    exitCode,    \* its exit status
    trayPc,      \* dispatch goroutine: "idle", "select", "open", "copy",
                 \* "copyWait", "qrWrite", "qrOpen", "quit", "done"
    icon,        \* the tray icon: "unset" or "set"
    menu,        \* titles of the menu items added so far
    pending,     \* clicks waiting on each item's ClickedCh
    dispatched,  \* the clicks the user made, in order
    handled,     \* the actions whose select case was entered, in order
    completed,   \* select cases that ran to their end
    quitCalled,  \* systray.Quit() was called
    opened,      \* the calls of openBrowser: [target, res]
    clipCalls,   \* texts fed to the clipboard commands that were started
    clipboard,   \* the clipboard's content
    qrFile,      \* the content of lan_qr.png
    failures,    \* the errors returned by external calls, in order:
                 \* "open", "clip" or "qr"
    store,       \* web app, state.store: "null" or "db"
    error,       \* web app, state.error: "null" or a message
    deletingPostIds,  \* web app, state.deletingPostIds: the ids mapped to true
    posts,       \* web app, state.posts: the ids of the posts shown
    dbPosts,     \* the ids of the posts in the database store.posts
    delCalls,    \* the calls of deletePost: [postId, pc, res]
    delIssued,   \* the ids passed to store.posts.del, in order
    timers,      \* reloads scheduled with setTimeout and not yet run
    searches,    \* searches of loadPosts in flight
    jsTask,      \* the deletePost call that is running, 0 when none is
    isLoading,   \* web app, state.isLoading
    isConnected, \* web app, state.isConnected
    peer,        \* web app, state.peer: "null" or "peer"
    connectedPeers,  \* web app, state.connectedPeers
    initPc,      \* initializePeer: "mount", "create", "bootstrap", "open",
                 \* "load", "done", "failed"
    initDone     \* awaited steps of initializePeer that were fulfilled

envVars == <<GOOS, ifaces, portFree, content>>

mainVars == <<mainPc, lanIP, lanURL, stdout>>

srvVars == <<srvPc, bindCount, req, resp, served>>

exitVars == <<exited, exitCode>>

trayVars == <<trayPc, icon, menu, pending, dispatched, handled, completed, quitCalled>>

fxVars == <<opened, clipCalls, clipboard, qrFile, failures>>

initVars == <<isLoading, isConnected, peer, connectedPeers, initPc, initDone>>

webVars == <<store, error, deletingPostIds, posts, dbPosts, delCalls, delIssued,
             timers, searches, jsTask, initVars>>

goVars == <<envVars, mainVars, srvVars, exitVars, trayVars, fxVars, log>>

vars == <<goVars, webVars>>

(***************************************************************************)
(* Inputs.                                                                 *)
(***************************************************************************)
LoopbackV4 == V4(127, 0, 0, 1)

LanV4 == V4(192, 168, 1, 5)

OtherV4 == V4(10, 0, 0, 2)

AddrValues ==
    { IPNet(LoopbackV4), IPNet(LanV4), IPNet(OtherV4), IPNet(V6("::1")),
      IPNet(V6("fe80::1")), IPAddr(LanV4) }

RECURSIVE SeqsUpTo(_, _)
SeqsUpTo(S, n) ==
    IF n = 0 THEN { <<>> }
    ELSE LET shorter == SeqsUpTo(S, n - 1)
         IN shorter \cup { Append(q, x) : q \in shorter, x \in S }

IfaceValues(n) ==
    { [err |-> TRUE, addrs |-> <<>>] }
        \cup { [err |-> FALSE, addrs |-> a] : a \in SeqsUpTo(AddrValues, n) }

\* the interface lists of the process model: a failed enumeration, and at
\* most MaxAddrs loopback addresses followed or not by the LAN address
ProcIfaceValues ==
    { [err |-> TRUE, addrs |-> <<>>] }
        \cup { [err |-> FALSE, addrs |-> a \o t] :
                 a \in SeqsUpTo({IPNet(LoopbackV4)}, MaxAddrs),
                 t \in { <<>>, <<IPNet(LanV4)>> } }

IndexBody == "<html>hi</html>"

ScriptBody == "console.log(1)"

FileNames ==
    { <<"index.html">>, <<"app.js">>, <<"assets", "index.html">>,
      <<"assets", "app.js">> }

\* every content source over FileNames
ContentValues ==
    UNION { [names -> {IndexBody, ScriptBody}] : names \in SUBSET FileNames }

\* the content source of the spec's scenario
ScenarioContent == [n \in { <<"index.html">> } |-> IndexBody]

Segments == {"index.html", "app.js", "assets", "missing"}

Methods == {"GET", "HEAD", "POST"}

\* cleaned request paths of at most two segments; the root is "/"
PathValues ==
    { [segs |-> q, slash |-> sl] :
        q \in SeqsUpTo(Segments, 2), sl \in BOOLEAN } \
    { [segs |-> <<>>, slash |-> FALSE] }

\* the requests of the process model: GET / and GET /missing
ProcPathValues ==
    { RootPath, [segs |-> <<"missing">>, slash |-> FALSE] }

NoReq == [method |-> "", path |-> RootPath]

NoResp == [status |-> 0, kind |-> "none", body |-> "", loc |-> ""]

NoFile == [written |-> FALSE, url |-> ""]

(***************************************************************************)
(* The state in which main() is entered.                                   *)
(***************************************************************************)
Start ==
    /\ mainPc = "main"
    /\ lanIP = ""
    /\ lanURL = ""
    /\ stdout = <<>>
    /\ log = <<>>
    /\ srvPc = "none"
    /\ bindCount = 0
    /\ req = NoReq
    /\ resp = NoResp
    /\ served = 0
    /\ exited = FALSE
    /\ exitCode = 0
    /\ trayPc = "idle"
    /\ icon = "unset"
    /\ menu = <<>>
    /\ pending = [a \in MenuActions |-> 0]
    /\ dispatched = <<>>
    /\ handled = <<>>
    /\ completed = 0
    /\ quitCalled = FALSE
    /\ opened = <<>>
    /\ clipCalls = <<>>
    /\ clipboard = ""
    /\ qrFile = NoFile
    /\ failures = <<>>

\* the web app as useState creates it, with no call made
WebStart ==
    /\ store = "null"
    /\ error = "null"
    /\ deletingPostIds = {}
    /\ posts = {}
    /\ dbPosts = {}
    /\ delCalls = <<>>
    /\ delIssued = <<>>
    /\ timers = 0
    /\ searches = 0
    /\ jsTask = 0
    /\ isLoading = TRUE
    /\ isConnected = FALSE
    /\ peer = "null"
    /\ connectedPeers = 0
    /\ initPc = "mount"
    /\ initDone = 0

Init ==
    /\ GOOS \in GOOSValues
    /\ ifaces \in ProcIfaceValues
    /\ portFree \in BOOLEAN
    /\ content = ScenarioContent
    /\ Start
    /\ WebStart


(***************************************************************************)
(* main()                                                                  *)
(***************************************************************************)
\* a main that gives up when no LAN address is found
MainLocate_fatalOnEmpty ==
    /\ ~exited /\ mainPc = "main"
    /\ lanIP' = getLANIP(ifaces)
    /\ lanURL' = SprintfURL(lanIP', port)
    /\ IF lanIP' = ""
       THEN /\ log' = Append(log, "no LAN address")
            /\ exited' = TRUE
            /\ exitCode' = 1
            /\ UNCHANGED <<mainPc, stdout>>
       ELSE /\ stdout' = Append(stdout, "Serving at: " \o lanURL')
            /\ mainPc' = "startServer"
            /\ UNCHANGED <<exitVars, log>>
    /\ UNCHANGED <<webVars, envVars, srvVars, trayVars, fxVars>>

\* lanIP := getLANIP(); lanURL = Sprintf(...); Println("Serving at:", lanURL)
MainLocate ==
    /\ ~exited /\ mainPc = "main"
    /\ lanIP' = getLANIP(ifaces)
    /\ lanURL' = SprintfURL(lanIP', port)
    /\ stdout' = Append(stdout, "Serving at: " \o lanURL')
    /\ mainPc' = "startServer"
    /\ UNCHANGED <<webVars, envVars, srvVars, exitVars, trayVars, fxVars, log>>

\* a startServer that calls ListenAndServe itself, without a goroutine
MainStartServer_blocking ==
    /\ ~exited /\ mainPc = "startServer"
    /\ bindCount' = bindCount + 1
    /\ \/ /\ portFree
          /\ srvPc' = "listening"
          /\ mainPc' = "serving"
          /\ UNCHANGED <<exitVars, log>>
       \/ /\ ~portFree
          /\ srvPc' = "failed"
          /\ log' = Append(log, "listen tcp :8000: bind: address already in use")
          /\ exited' = TRUE
          /\ exitCode' = 1
          /\ mainPc' = mainPc
    /\ UNCHANGED <<webVars, envVars, lanIP, lanURL, stdout, req, resp, served,
                   trayVars, fxVars>>

\* startServer(): the handler is registered and the listener goroutine is
\* launched; the call returns without waiting for it
MainStartServer ==
    /\ ~exited /\ mainPc = "startServer"
    /\ srvPc' = "starting"
    /\ mainPc' = "run"
    /\ UNCHANGED <<webVars, envVars, lanIP, lanURL, stdout, bindCount, req, resp, served, exitVars,
                   trayVars, fxVars, log>>

\* systray.Run(onReady, ...): main blocks in the tray's native loop
MainRun ==
    /\ ~exited /\ mainPc = "run"
    /\ mainPc' = "loop"
    /\ UNCHANGED <<webVars, envVars, lanIP, lanURL, stdout, srvVars, exitVars, trayVars, fxVars, log>>

\* a systray.Run that returns without waiting for systray.Quit()
MainReturn_withoutQuit ==
    /\ ~exited /\ mainPc = "loop"
    /\ mainPc' = "exit"
    /\ exited' = TRUE
    /\ exitCode' = 0
    /\ UNCHANGED <<webVars, envVars, lanIP, lanURL, stdout, srvVars, trayVars, fxVars, log>>

\* the native loop ends after systray.Quit(); Run returns, main returns
MainReturn ==
    /\ ~exited /\ mainPc = "loop" /\ quitCalled
    /\ mainPc' = "exit"
    /\ exited' = TRUE
    /\ exitCode' = 0
    /\ UNCHANGED <<webVars, envVars, lanIP, lanURL, stdout, srvVars, trayVars, fxVars, log>>

(***************************************************************************)
(* The listener goroutine: log.Fatal(http.ListenAndServe(":8000", nil))    *)
(***************************************************************************)
BindError == "listen tcp :8000: bind: address already in use"

\* a listener that only prints the bind error and lets the goroutine end
ListenFail_logOnly ==
    /\ ~exited /\ srvPc = "starting" /\ ~portFree
    /\ bindCount' = bindCount + 1
    /\ srvPc' = "failed"
    /\ log' = Append(log, BindError)
    /\ UNCHANGED <<webVars, envVars, mainVars, req, resp, served, exitVars, trayVars, fxVars>>

\* a log.Fatal whose exit status is 0
ListenFail_exitZero ==
    /\ ~exited /\ srvPc = "starting" /\ ~portFree
    /\ bindCount' = bindCount + 1
    /\ srvPc' = "failed"
    /\ log' = Append(log, BindError)
    /\ exited' = TRUE
    /\ exitCode' = 0
    /\ UNCHANGED <<webVars, envVars, mainVars, req, resp, served, trayVars, fxVars>>

\* the bind succeeds and the accept loop runs
ListenOK ==
    /\ ~exited /\ srvPc = "starting" /\ portFree
    /\ bindCount' = bindCount + 1
    /\ srvPc' = "listening"
    /\ UNCHANGED <<webVars, envVars, mainVars, req, resp, served, exitVars, trayVars, fxVars, log>>

\* the bind fails: ListenAndServe returns the error, log.Fatal prints it and
\* calls os.Exit(1)
ListenFail ==
    /\ ~exited /\ srvPc = "starting" /\ ~portFree
    /\ bindCount' = bindCount + 1
    /\ srvPc' = "failed"
    /\ log' = Append(log, BindError)
    /\ exited' = TRUE
    /\ exitCode' = 1
    /\ UNCHANGED <<webVars, envVars, mainVars, req, resp, served, trayVars, fxVars>>

\* a listener that closes its socket after a request and binds it again
Serve_rebinds(method, path) ==
    /\ ~exited /\ srvPc = "listening" /\ served < MaxRequests
    /\ req' = [method |-> method, path |-> path]
    /\ resp' = ServeHTTP(content, method, path)
    /\ served' = served + 1
    /\ srvPc' = "starting"
    /\ UNCHANGED <<webVars, envVars, mainVars, bindCount, exitVars, trayVars, fxVars, log>>

\* one request answered by the file server registered on "/"
Serve(method, path) ==
    /\ ~exited /\ srvPc = "listening" /\ served < MaxRequests
    /\ req' = [method |-> method, path |-> path]
    /\ resp' = ServeHTTP(content, method, path)
    /\ served' = served + 1
    /\ UNCHANGED <<webVars, envVars, mainVars, srvPc, bindCount, exitVars, trayVars, fxVars, log>>


(***************************************************************************)
(* The tray: onReady, the user's clicks, and the dispatch goroutine.       *)
(***************************************************************************)
\* an onReady that starts the dispatch goroutine before the Quit item exists
OnReady_withoutQuitItem ==
    /\ ~exited /\ mainPc = "loop" /\ trayPc = "idle"
    /\ icon' = "set"
    /\ menu' = <<"Open App", "Copy LAN URL", "Show QR Code">>
    /\ trayPc' = "select"
    /\ UNCHANGED <<webVars, envVars, mainVars, srvVars, exitVars, pending, dispatched,
                   handled, completed, quitCalled, fxVars, log>>

\* an onReady of the filesystem build that gives up when the icon file
\* cannot be read
OnReadyFile_fatalOnIconError ==
    /\ ~exited /\ mainPc = "loop" /\ trayPc = "idle"
    /\ \/ /\ icon' = "set"
          /\ menu' = MenuTitles
          /\ trayPc' = "select"
          /\ UNCHANGED <<exitVars, log>>
       \/ /\ log' = Append(log, "open tray_icon.png: no such file or directory")
          /\ exited' = TRUE
          /\ exitCode' = 1
          /\ UNCHANGED <<icon, menu, trayPc>>
    /\ UNCHANGED <<webVars, envVars, mainVars, srvVars, pending, dispatched,
                   handled, completed, quitCalled, fxVars>>

\* onReady() of the filesystem build: the icon is set when tray_icon.png
\* can be read and left unset otherwise; then title, tooltip, the four
\* AddMenuItem calls and the launch of the dispatch goroutine
OnReadyFile ==
    /\ ~exited /\ mainPc = "loop" /\ trayPc = "idle"
    /\ \/ icon' = "set"
       \/ icon' = icon
    /\ menu' = MenuTitles
    /\ trayPc' = "select"
    /\ UNCHANGED <<webVars, envVars, mainVars, srvVars, exitVars, pending, dispatched,
                   handled, completed, quitCalled, fxVars, log>>

\* onReady(): icon, title, tooltip, the four AddMenuItem calls, and the
\* launch of the dispatch goroutine
OnReady ==
    /\ ~exited /\ mainPc = "loop" /\ trayPc = "idle"
    /\ icon' = "set"
    /\ menu' = MenuTitles
    /\ trayPc' = "select"
    /\ UNCHANGED <<webVars, envVars, mainVars, srvVars, exitVars, pending, dispatched,
                   handled, completed, quitCalled, fxVars, log>>

\* the dispatch goroutine is blocked in select with no click waiting
LoopIdle == trayPc = "select" /\ \A b \in MenuActions : pending[b] = 0

\* The user clicks the item of action a.  The tray library sends on the
\* item's ClickedCh: the click waits there for the select, or, when the
\* dispatch goroutine is not ready to receive, the send is abandoned.
Click(a) ==
    /\ ~exited /\ menu # <<>> /\ Len(dispatched) < MaxClicks
    /\ dispatched' = Append(dispatched, a)
    /\ \/ /\ pending[a] < MaxPending
          /\ pending' = [pending EXCEPT ![a] = @ + 1]
       \/ /\ ~LoopIdle
          /\ pending' = pending
    /\ UNCHANGED <<webVars, envVars, mainVars, srvVars, exitVars, trayPc, icon, menu, handled,
                   completed, quitCalled, fxVars, log>>

\* a Show QR case that opens the image without writing it
CaseOf_qrOpenOnly(a) ==
    CASE a = "OpenApp" -> "open"
      [] a = "CopyURL" -> "copy"
      [] a = "ShowQR" -> "qrOpen"
      [] a = "Quit" -> "quit"

\* the case of the select that handles action a
CaseOf(a) ==
    CASE a = "OpenApp" -> "open"
      [] a = "CopyURL" -> "copy"
      [] a = "ShowQR" -> "qrWrite"
      [] a = "Quit" -> "quit"

\* a dispatcher that starts a handler for every click as it arrives
CanReceive_concurrent == trayPc \notin {"idle", "done"}

\* the goroutine is at the select statement
CanReceive == trayPc = "select"

\* select: any case whose channel has a click may be chosen
Ready(a) == pending[a] > 0

\* select receives from the ClickedCh of action a and enters its case
Dequeue(a) ==
    /\ ~exited /\ CanReceive /\ Ready(a)
    /\ pending' = [pending EXCEPT ![a] = @ - 1]
    /\ handled' = Append(handled, a)
    /\ trayPc' = CaseOf(a)
    /\ UNCHANGED <<webVars, envVars, mainVars, srvVars, exitVars, icon, menu, dispatched,
                   completed, quitCalled, fxVars, log>>

SupportedOS == {"linux", "windows", "darwin"}

\* openBrowser(target): on a supported platform the opener command is
\* started, and a failure to start it is logged; elsewhere nothing is run
OpenBrowser(target) ==
    \/ /\ GOOS \in SupportedOS
       /\ opened' = Append(opened, [target |-> target, res |-> "started"])
       /\ failures' = failures
       /\ log' = log
    \/ /\ GOOS \in SupportedOS
       /\ opened' = Append(opened, [target |-> target, res |-> "failed"])
       /\ failures' = Append(failures, "open")
       /\ log' = Append(log, "Failed to open browser: " \o target)
    \/ /\ GOOS \notin SupportedOS
       /\ opened' = Append(opened, [target |-> target, res |-> "no command"])
       /\ failures' = failures
       /\ log' = log

\* an Open App case that opens the LAN URL
HandleOpen_opensLanURL ==
    /\ ~exited /\ trayPc = "open"
    /\ OpenBrowser(lanURL)
    /\ trayPc' = "select"
    /\ completed' = completed + 1
    /\ UNCHANGED <<webVars, envVars, mainVars, srvVars, exitVars, icon, menu, pending, dispatched,
                   handled, quitCalled, clipCalls, clipboard, qrFile>>

\* case <-mOpen.ClickedCh
HandleOpen ==
    /\ ~exited /\ trayPc = "open"
    /\ OpenBrowser(LocalURL)
    /\ trayPc' = "select"
    /\ completed' = completed + 1
    /\ UNCHANGED <<webVars, envVars, mainVars, srvVars, exitVars, icon, menu, pending, dispatched,
                   handled, quitCalled, clipCalls, clipboard, qrFile>>

\* what the platform's clipboard command receives for the text url
ClipInput(os, url) ==
    IF os = "windows" THEN url \o "\r\n" ELSE url

\* a Copy LAN URL case that does nothing when the LAN host is empty
HandleCopyStart_skipsEmptyHost ==
    /\ ~exited /\ trayPc = "copy"
    /\ \/ /\ lanURL # "http://:8000"
          /\ clipCalls' = Append(clipCalls, ClipInput(GOOS, lanURL))
          /\ failures' = failures
          /\ trayPc' = "copyWait"
          /\ completed' = completed
       \/ /\ lanURL # "http://:8000"
          /\ clipCalls' = clipCalls
          /\ failures' = Append(failures, "clip")
          /\ trayPc' = "select"
          /\ completed' = completed + 1
       \/ /\ lanURL = "http://:8000"
          /\ clipCalls' = clipCalls
          /\ failures' = failures
          /\ trayPc' = "select"
          /\ completed' = completed + 1
    /\ UNCHANGED <<webVars, envVars, mainVars, srvVars, exitVars, icon, menu, pending, dispatched,
                   handled, quitCalled, opened, clipboard, qrFile, log>>

\* a Copy LAN URL case that ends the process when the command cannot start
HandleCopyStart_fatalOnError ==
    /\ ~exited /\ trayPc = "copy"
    /\ \/ /\ clipCalls' = Append(clipCalls, ClipInput(GOOS, lanURL))
          /\ failures' = failures
          /\ trayPc' = "copyWait"
          /\ UNCHANGED <<completed, exitVars, log>>
       \/ /\ clipCalls' = clipCalls
          /\ failures' = Append(failures, "clip")
          /\ log' = Append(log, "clipboard command failed")
          /\ exited' = TRUE
          /\ exitCode' = 1
          /\ UNCHANGED <<trayPc, completed>>
    /\ UNCHANGED <<webVars, envVars, mainVars, srvVars, icon, menu, pending, dispatched,
                   handled, quitCalled, opened, clipboard, qrFile>>

\* case <-mCopy.ClickedCh: cmd.Run() starts the clipboard command (its
\* error is discarded) and then waits for it
HandleCopyStart ==
    /\ ~exited /\ trayPc = "copy"
    /\ \/ /\ clipCalls' = Append(clipCalls, ClipInput(GOOS, lanURL))
          /\ failures' = failures
          /\ trayPc' = "copyWait"
          /\ completed' = completed
       \/ /\ clipCalls' = clipCalls
          /\ failures' = Append(failures, "clip")
          /\ trayPc' = "select"
          /\ completed' = completed + 1
    /\ UNCHANGED <<webVars, envVars, mainVars, srvVars, exitVars, icon, menu, pending, dispatched,
                   handled, quitCalled, opened, clipboard, qrFile, log>>

\* the clipboard command ends and cmd.Run() returns: the command has set
\* the clipboard, or it failed and Run's error is discarded
HandleCopyDone ==
    /\ ~exited /\ trayPc = "copyWait"
    /\ \/ /\ clipboard' = clipCalls[Len(clipCalls)]
          /\ failures' = failures
       \/ /\ clipboard' = clipboard
          /\ failures' = Append(failures, "clip")
    /\ trayPc' = "select"
    /\ completed' = completed + 1
    /\ UNCHANGED <<webVars, envVars, mainVars, srvVars, exitVars, icon, menu, pending, dispatched,
                   handled, quitCalled, opened, clipCalls, qrFile, log>>

\* a Show QR case that writes the image into the served directory
HandleQrWrite_intoContent ==
    /\ ~exited /\ trayPc = "qrWrite"
    /\ \/ /\ qrFile' = [written |-> TRUE, url |-> lanURL]
          /\ content' = [n \in DOMAIN content \cup {<<QRFile>>} |->
                            IF n = <<QRFile>> THEN lanURL ELSE content[n]]
          /\ failures' = failures
       \/ /\ qrFile' = qrFile
          /\ content' = content
          /\ failures' = Append(failures, "qr")
    /\ trayPc' = "qrOpen"
    /\ UNCHANGED <<webVars, GOOS, ifaces, portFree, mainVars, srvVars, exitVars, icon, menu,
                   pending, dispatched, handled, completed, quitCalled, opened,
                   clipCalls, clipboard, log>>

\* a Show QR case that appends to the image file instead of replacing it
HandleQrWrite_appends ==
    /\ ~exited /\ trayPc = "qrWrite"
    /\ \/ /\ qrFile' = [written |-> TRUE, url |-> qrFile.url \o lanURL]
          /\ failures' = failures
       \/ /\ qrFile' = qrFile
          /\ failures' = Append(failures, "qr")
    /\ trayPc' = "qrOpen"
    /\ UNCHANGED <<webVars, envVars, mainVars, srvVars, exitVars, icon, menu, pending, dispatched,
                   handled, completed, quitCalled, opened, clipCalls, clipboard, log>>

\* a Show QR case that logs a failed write and does not open the image
HandleQrWrite_stopsOnError ==
    /\ ~exited /\ trayPc = "qrWrite"
    /\ \/ /\ qrFile' = [written |-> TRUE, url |-> lanURL]
          /\ failures' = failures
          /\ trayPc' = "qrOpen"
          /\ UNCHANGED <<completed, log>>
       \/ /\ qrFile' = qrFile
          /\ failures' = Append(failures, "qr")
          /\ log' = Append(log, "Failed to write QR code")
          /\ trayPc' = "select"
          /\ completed' = completed + 1
    /\ UNCHANGED <<webVars, envVars, mainVars, srvVars, exitVars, icon, menu, pending, dispatched,
                   handled, quitCalled, opened, clipCalls, clipboard>>

\* a Show QR case that looks the LAN address up again for the code
HandleQrWrite_currentAddress ==
    /\ ~exited /\ trayPc = "qrWrite"
    /\ \/ /\ qrFile' = [written |-> TRUE,
                         url |-> SprintfURL(getLANIP(ifaces), port)]
          /\ failures' = failures
       \/ /\ qrFile' = qrFile
          /\ failures' = Append(failures, "qr")
    /\ trayPc' = "qrOpen"
    /\ UNCHANGED <<webVars, envVars, mainVars, srvVars, exitVars, icon, menu, pending, dispatched,
                   handled, completed, quitCalled, opened, clipCalls, clipboard, log>>

\* case <-mQR.ClickedCh, first statement: qrcode.WriteFile, error discarded
HandleQrWrite ==
    /\ ~exited /\ trayPc = "qrWrite"
    /\ \/ /\ qrFile' = [written |-> TRUE, url |-> lanURL]
          /\ failures' = failures
       \/ /\ qrFile' = qrFile
          /\ failures' = Append(failures, "qr")
    /\ trayPc' = "qrOpen"
    /\ UNCHANGED <<webVars, envVars, mainVars, srvVars, exitVars, icon, menu, pending, dispatched,
                   handled, completed, quitCalled, opened, clipCalls, clipboard, log>>

\* case <-mQR.ClickedCh, second statement: openBrowser(file)
HandleQrOpen ==
    /\ ~exited /\ trayPc = "qrOpen"
    /\ OpenBrowser(QRFile)
    /\ trayPc' = "select"
    /\ completed' = completed + 1
    /\ UNCHANGED <<webVars, envVars, mainVars, srvVars, exitVars, icon, menu, pending, dispatched,
                   handled, quitCalled, clipCalls, clipboard, qrFile>>

\* a Quit case that signals the tray and goes on receiving
HandleQuit_noReturn ==
    /\ ~exited /\ trayPc = "quit"
    /\ quitCalled' = TRUE
    /\ trayPc' = "select"
    /\ completed' = completed + 1
    /\ UNCHANGED <<webVars, envVars, mainVars, srvVars, exitVars, icon, menu, pending, dispatched,
                   handled, fxVars, log>>

\* a Quit case that shuts the listener down before it quits the tray
HandleQuit_closesListener ==
    /\ ~exited /\ trayPc = "quit"
    /\ quitCalled' = TRUE
    /\ trayPc' = "done"
    /\ completed' = completed + 1
    /\ srvPc' = IF srvPc = "listening" THEN "closed" ELSE srvPc
    /\ UNCHANGED <<webVars, envVars, mainVars, bindCount, req, resp, served, exitVars,
                   icon, menu, pending, dispatched, handled, fxVars, log>>

\* case <-mQuit.ClickedCh: systray.Quit(); return
HandleQuit ==
    /\ ~exited /\ trayPc = "quit"
    /\ quitCalled' = TRUE
    /\ trayPc' = "done"
    /\ completed' = completed + 1
    /\ UNCHANGED <<webVars, envVars, mainVars, srvVars, exitVars, icon, menu, pending, dispatched,
                   handled, fxVars, log>>

(***************************************************************************)
(* The process.                                                            *)
(***************************************************************************)
Next ==
    \/ MainLocate
    \/ MainStartServer
    \/ MainRun
    \/ MainReturn
    \/ ListenOK
    \/ ListenFail
    \/ \E p \in ProcPathValues : Serve("GET", p)
    \/ OnReady
    \/ \E a \in MenuActions : Click(a)
    \/ \E a \in MenuActions : Dequeue(a)
    \/ HandleOpen
    \/ HandleCopyStart
    \/ HandleCopyDone
    \/ HandleQrWrite
    \/ HandleQrOpen
    \/ HandleQuit

Spec == Init /\ [][Next]_vars


(***************************************************************************)
(* Startup alone, over every interface list of at most MaxLocateAddrs      *)
(* addresses.                                                              *)
(***************************************************************************)
StartupInit ==
    /\ GOOS = "linux"
    /\ ifaces \in IfaceValues(MaxLocateAddrs)
    /\ portFree \in BOOLEAN
    /\ content = ScenarioContent
    /\ Start
    /\ WebStart

StartupNext ==
    \/ MainLocate
    \/ MainStartServer
    \/ MainRun
    \/ OnReady
    \/ ListenOK
    \/ ListenFail

SpecStartup == StartupInit /\ [][StartupNext]_vars

(***************************************************************************)
(* The listener alone, over every content source and every request.        *)
(***************************************************************************)
HttpInit ==
    /\ GOOS = "linux"
    /\ ifaces = [err |-> FALSE, addrs |-> <<IPNet(LoopbackV4), IPNet(LanV4)>>]
    /\ portFree = TRUE
    /\ content \in ContentValues
    /\ Start
    /\ WebStart

HttpNext ==
    \/ MainLocate
    \/ MainStartServer
    \/ ListenOK
    \/ \E m \in Methods, p \in PathValues : Serve(m, p)

SpecHttp == HttpInit /\ [][HttpNext]_vars

(***************************************************************************)
(* The process on a host whose interface addresses change while it runs,   *)
(* with port 8000 free.                                                    *)
(***************************************************************************)
\* the host's interface list, which net.InterfaceAddrs reads, changes
NetChange ==
    /\ ~exited
    /\ ifaces' \in ProcIfaceValues \ {ifaces}
    /\ UNCHANGED <<webVars, GOOS, portFree, content, mainVars, srvVars, exitVars,
                   trayVars, fxVars, log>>

NetInit ==
    /\ GOOS \in GOOSValues
    /\ ifaces \in ProcIfaceValues
    /\ portFree = TRUE
    /\ content = ScenarioContent
    /\ Start
    /\ WebStart

NetNext ==
    \/ NetChange
    \/ MainLocate
    \/ MainStartServer
    \/ MainRun
    \/ MainReturn
    \/ ListenOK
    \/ OnReady
    \/ \E a \in MenuActions : Click(a)
    \/ \E a \in MenuActions : Dequeue(a)
    \/ HandleOpen
    \/ HandleCopyStart
    \/ HandleCopyDone
    \/ HandleQrWrite
    \/ HandleQrOpen
    \/ HandleQuit

SpecNet == NetInit /\ [][NetNext]_vars

(***************************************************************************)
(* The filesystem build: the same program with the icon read from          *)
(* tray_icon.png in onReady, on a linux host.                              *)
(***************************************************************************)
FileInit ==
    /\ GOOS = "linux"
    /\ ifaces \in ProcIfaceValues
    /\ portFree \in BOOLEAN
    /\ content = ScenarioContent
    /\ Start
    /\ WebStart

FileNext ==
    \/ MainLocate
    \/ MainStartServer
    \/ MainRun
    \/ MainReturn
    \/ ListenOK
    \/ ListenFail
    \/ \E p \in ProcPathValues : Serve("GET", p)
    \/ OnReadyFile
    \/ \E a \in MenuActions : Click(a)
    \/ \E a \in MenuActions : Dequeue(a)
    \/ HandleOpen
    \/ HandleCopyStart
    \/ HandleCopyDone
    \/ HandleQrWrite
    \/ HandleQrOpen
    \/ HandleQuit

SpecFile == FileInit /\ [][FileNext]_vars

(***************************************************************************)
(* The web app: the App component's state and deletePost.  JavaScript runs *)
(* one task at a time: a call of deletePost runs up to its await without   *)
(* any other callback in between, and so does its continuation.  A         *)
(* setState with an updater takes effect in the order of the calls.        *)
(***************************************************************************)
\* what a rejected step of initializePeer throws: an Error with a message
\* (which can be empty), or a value that is not an Error
ThrownValues ==
    { [isError |-> TRUE, message |-> "bootstrap timeout"],
      [isError |-> TRUE, message |-> ""],
      [isError |-> FALSE, message |-> "aborted"] }

\* the steps of initializePeer that are awaited before the state is set:
\* Peerbit.create, peer.bootstrap, peer.open
InitSteps == <<"create", "bootstrap", "open">>

\* values of peer.libp2p.getConnections().length
ConnectionCounts == {0, 1}

PostIds == {"p1", "p2"}

\* arguments of deletePost: a post's id, or the empty string
PostIdValues == PostIds \cup {""}

DeleteError == "Failed to delete post"

LoadError == "Failed to load posts: timeout"

InitError == "Failed to initialize peer"

\* the App component as it is mounted: the state that useState creates, a
\* database with any of the posts, initializePeer not yet called
WebInit ==
    /\ GOOS = "linux"
    /\ ifaces = [err |-> TRUE, addrs |-> <<>>]
    /\ portFree = TRUE
    /\ content = ScenarioContent
    /\ Start
    /\ store = "null"
    /\ error = "null"
    /\ dbPosts \in SUBSET PostIds
    /\ posts = {}
    /\ deletingPostIds = {}
    /\ delCalls = <<>>
    /\ delIssued = <<>>
    /\ timers = 0
    /\ searches = 0
    /\ jsTask = 0
    /\ isLoading = TRUE
    /\ isConnected = FALSE
    /\ peer = "null"
    /\ connectedPeers = 0
    /\ initPc = "mount"
    /\ initDone = 0

\* the call deletePost(postId): const store = state.store and the early
\* return when there is no store or no postId
deletePost(postId) ==
    /\ jsTask = 0 /\ Len(delCalls) < MaxDeletes
    /\ IF store = "null" \/ postId = ""
       THEN /\ delCalls' = Append(delCalls,
                    [postId |-> postId, pc |-> "returned", res |-> ""])
            /\ jsTask' = 0
       ELSE /\ delCalls' = Append(delCalls,
                    [postId |-> postId, pc |-> "track", res |-> ""])
            /\ jsTask' = Len(delCalls) + 1
    /\ UNCHANGED <<goVars, initVars, store, error, deletingPostIds, posts, dbPosts,
                   delIssued, timers, searches>>

\* call i is the running task and is at position pc
AtPc(i, pc) == i \in DOMAIN delCalls /\ jsTask = i /\ delCalls[i].pc = pc

\* call i waits for the promise of store.posts.del
Awaiting(i) == i \in DOMAIN delCalls /\ jsTask = 0 /\ delCalls[i].pc = "await"

\* a deletePost that issues the delete before it tracks the deletion
DelTrack_afterIssue(i) ==
    /\ AtPc(i, "track")
    /\ delIssued' = Append(delIssued, delCalls[i].postId)
    /\ error' = "null"
    /\ deletingPostIds' = deletingPostIds \cup {delCalls[i].postId}
    /\ delCalls' = [delCalls EXCEPT ![i].pc = "await"]
    /\ jsTask' = 0
    /\ UNCHANGED <<goVars, initVars, store, posts, dbPosts, timers, searches>>

\* setState: error null, postId added to deletingPostIds
DelTrack(i) ==
    /\ AtPc(i, "track")
    /\ error' = "null"
    /\ deletingPostIds' = deletingPostIds \cup {delCalls[i].postId}
    /\ delCalls' = [delCalls EXCEPT ![i].pc = "del"]
    /\ UNCHANGED <<goVars, initVars, store, posts, dbPosts, delIssued, timers, searches,
                   jsTask>>

\* store.posts.del(postId) is called and the task ends at the await
DelIssue(i) ==
    /\ AtPc(i, "del")
    /\ delIssued' = Append(delIssued, delCalls[i].postId)
    /\ delCalls' = [delCalls EXCEPT ![i].pc = "await"]
    /\ jsTask' = 0
    /\ UNCHANGED <<goVars, initVars, store, error, deletingPostIds, posts, dbPosts,
                   timers, searches>>

\* the delete's promise is fulfilled: the post is gone from the database
DelResolve(i) ==
    /\ Awaiting(i)
    /\ dbPosts' = dbPosts \ {delCalls[i].postId}
    /\ delCalls' = [delCalls EXCEPT ![i].pc = "then", ![i].res = "ok"]
    /\ jsTask' = i
    /\ UNCHANGED <<goVars, initVars, store, error, deletingPostIds, posts, delIssued,
                   timers, searches>>

\* the delete's promise is rejected
DelReject(i) ==
    /\ Awaiting(i)
    /\ delCalls' = [delCalls EXCEPT ![i].pc = "catch", ![i].res = "failed"]
    /\ jsTask' = i
    /\ UNCHANGED <<goVars, initVars, store, error, deletingPostIds, posts, dbPosts,
                   delIssued, timers, searches>>

\* after the await: setTimeout of the reload, 300 ms
DelThen(i) ==
    /\ AtPc(i, "then")
    /\ timers' = timers + 1
    /\ delCalls' = [delCalls EXCEPT ![i].pc = "finally"]
    /\ UNCHANGED <<goVars, initVars, store, error, deletingPostIds, posts, dbPosts,
                   delIssued, searches, jsTask>>

\* catch: console.error and setState of the error message
DelCatch(i) ==
    /\ AtPc(i, "catch")
    /\ error' = DeleteError
    /\ delCalls' = [delCalls EXCEPT ![i].pc = "finally"]
    /\ UNCHANGED <<goVars, initVars, store, deletingPostIds, posts, dbPosts, delIssued,
                   timers, searches, jsTask>>

\* finally: setState that takes postId out of deletingPostIds; the call ends
DelFinally(i) ==
    /\ AtPc(i, "finally")
    /\ deletingPostIds' = deletingPostIds \ {delCalls[i].postId}
    /\ delCalls' = [delCalls EXCEPT ![i].pc = "done"]
    /\ jsTask' = 0
    /\ UNCHANGED <<goVars, initVars, store, error, posts, dbPosts, delIssued, timers,
                   searches>>

\* the timer fires: loadPosts(store) starts its search
loadPosts ==
    /\ jsTask = 0 /\ timers > 0
    /\ timers' = timers - 1
    /\ searches' = searches + 1
    /\ UNCHANGED <<goVars, initVars, store, error, deletingPostIds, posts, dbPosts,
                   delCalls, delIssued, jsTask>>

\* the search of loadPosts settles: the posts found are set, or the error
loadPostsSettle ==
    /\ jsTask = 0 /\ searches > 0
    /\ searches' = searches - 1
    /\ \/ /\ posts' = dbPosts
          /\ error' = error
       \/ /\ posts' = posts
          /\ error' = LoadError
    /\ UNCHANGED <<goVars, initVars, store, deletingPostIds, dbPosts, delCalls,
                   delIssued, timers, jsTask>>

delVars == <<deletingPostIds, delCalls, delIssued, timers, jsTask>>

\* useEffect on mount calls initializePeer(): setState of isLoading and
\* error, then Peerbit.create is awaited
initializePeer ==
    /\ jsTask = 0 /\ initPc = "mount"
    /\ isLoading' = TRUE
    /\ error' = "null"
    /\ initPc' = "create"
    /\ UNCHANGED <<goVars, store, posts, dbPosts, searches, delVars,
                   isConnected, peer, connectedPeers, initDone>>

\* an initializePeer that marks the app connected once the peer has
\* bootstrapped, before the database is open
InitStepResolve_connectsEarly ==
    /\ jsTask = 0 /\ initPc \in {"create", "bootstrap"}
    /\ initPc' = InitSteps[initDone + 2]
    /\ initDone' = initDone + 1
    /\ peer' = "peer"
    /\ isConnected' = (initPc = "bootstrap")
    /\ UNCHANGED <<goVars, store, error, posts, dbPosts, searches, delVars,
                   isLoading, connectedPeers>>

\* Peerbit.create or peer.bootstrap is fulfilled; the next step is awaited
InitStepResolve ==
    /\ jsTask = 0 /\ initPc \in {"create", "bootstrap"}
    /\ initPc' = InitSteps[initDone + 2]
    /\ initDone' = initDone + 1
    /\ UNCHANGED <<goVars, store, error, posts, dbPosts, searches, delVars,
                   isLoading, isConnected, peer, connectedPeers>>

\* peer.open is fulfilled: the listeners are added, setState of peer, store,
\* isConnected, isLoading and connectedPeers, and loadPosts(store) is awaited
InitOpened(n) ==
    /\ jsTask = 0 /\ initPc = "open"
    /\ peer' = "peer"
    /\ store' = "db"
    /\ isConnected' = TRUE
    /\ isLoading' = FALSE
    /\ connectedPeers' = n
    /\ initPc' = "load"
    /\ initDone' = initDone + 1
    /\ UNCHANGED <<goVars, error, posts, dbPosts, searches, delVars>>

\* an awaited step is rejected with e; catch: console.error and setState of
\* error and isLoading
InitReject(e) ==
    /\ jsTask = 0 /\ initPc \in {"create", "bootstrap", "open"}
    /\ error' = IF e.isError THEN e.message ELSE InitError
    /\ isLoading' = FALSE
    /\ initPc' = "failed"
    /\ UNCHANGED <<goVars, store, posts, dbPosts, searches, delVars,
                   isConnected, peer, connectedPeers, initDone>>

\* the loadPosts awaited by initializePeer settles (posts set, or the load
\* error); then the change listeners and the refresh interval are set up
InitLoadSettle ==
    /\ jsTask = 0 /\ initPc = "load"
    /\ \/ /\ posts' = dbPosts
          /\ error' = error
       \/ /\ posts' = posts
          /\ error' = LoadError
    /\ initPc' = "done"
    /\ UNCHANGED <<goVars, store, dbPosts, searches, delVars, isLoading,
                   isConnected, peer, connectedPeers, initDone>>

\* peer:connect or peer:disconnect: setState of connectedPeers
updateConnectedPeers(n) ==
    /\ jsTask = 0 /\ initPc \in {"load", "done"}
    /\ n # connectedPeers
    /\ connectedPeers' = n
    /\ UNCHANGED <<goVars, store, error, posts, dbPosts, searches, delVars,
                   isLoading, isConnected, peer, initPc, initDone>>

\* the refresh interval, or a change or join event: loadPosts(store) starts
\* its search
refreshPosts ==
    /\ jsTask = 0 /\ initPc = "done" /\ searches < MaxRefreshes
    /\ searches' = searches + 1
    /\ UNCHANGED <<goVars, initVars, store, error, posts, dbPosts, delVars>>

WebNext ==
    \/ initializePeer
    \/ InitStepResolve
    \/ \E n \in ConnectionCounts : InitOpened(n)
    \/ \E e \in ThrownValues : InitReject(e)
    \/ InitLoadSettle
    \/ \E n \in ConnectionCounts : updateConnectedPeers(n)
    \/ refreshPosts
    \/ \E id \in PostIdValues : deletePost(id)
    \/ \E i \in 1..MaxDeletes : DelTrack(i)
    \/ \E i \in 1..MaxDeletes : DelIssue(i)
    \/ \E i \in 1..MaxDeletes : DelResolve(i)
    \/ \E i \in 1..MaxDeletes : DelReject(i)
    \/ \E i \in 1..MaxDeletes : DelThen(i)
    \/ \E i \in 1..MaxDeletes : DelCatch(i)
    \/ \E i \in 1..MaxDeletes : DelFinally(i)
    \/ loadPosts
    \/ loadPostsSettle

SpecWeb == WebInit /\ [][WebNext]_vars



(***************************************************************************)
(* Properties of the dispatch loop.                                        *)
(***************************************************************************)
HandledQuit == \E i \in 1..Len(handled) : handled[i] = "Quit"

\* select cases entered and not yet left
InProgress == Len(handled) - completed

\* C1: the handlers run are, in order, the handlers of the actions the user
\* dispatched: at every moment the sequence of handled actions is a prefix of
\* the sequence of dispatched actions (nothing dropped, duplicated, reordered).
C1_HandledInDispatchOrder == IsPrefix(handled, dispatched)

\* C2: at most one action handler is executing, and the select statement is
\* reached again only when the handler before it has run to completion.
C2_HandlingIsSerialized ==
    /\ InProgress \in {0, 1}
    /\ trayPc \in {"idle", "select", "done"} => InProgress = 0
    /\ trayPc \in {"open", "copy", "copyWait", "qrWrite", "qrOpen", "quit"}
           => InProgress = 1

\* C2 witness: the clipboard command is being waited for while a click on
\* another entry is already pending
C2_Witness ==
    /\ trayPc = "copyWait"
    /\ pending["OpenApp"] = 1
    /\ InProgress = 1

\* C3: once Quit has been handled it is the last handled action for ever: the
\* loop is in its Quit case or has returned, and from then on no action is
\* handled and no handler effect occurs, whatever is pending or arrives; and
\* when the handled actions are [OpenApp, Quit], openBrowser was called exactly
\* once, with the local URL.
C3_NothingAfterQuit ==
    /\ [](HandledQuit =>
            /\ handled[Len(handled)] = "Quit"
            /\ trayPc \in {"quit", "done"})
    /\ [](handled = <<"OpenApp", "Quit">> =>
            /\ Len(opened) = 1
            /\ opened[1].target = LocalURL)
    /\ [][HandledQuit =>
            /\ handled' = handled
            /\ opened' = opened
            /\ clipCalls' = clipCalls
            /\ clipboard' = clipboard
            /\ qrFile' = qrFile
            /\ trayPc = "done" => trayPc' = "done"]_vars

\* C3 witness: Quit was handled and the loop has returned while a later click
\* on Open App is still waiting on its channel
C3_Witness ==
    /\ dispatched = <<"Quit", "OpenApp">>
    /\ handled = <<"Quit">>
    /\ trayPc = "done"
    /\ pending["OpenApp"] = 1

(***************************************************************************)
(* Properties of the listener and of the exit status.                      *)
(***************************************************************************)
\* C4: a failed bind is fatal: the listener is bound at most once, and when the
\* bind has failed the cause is the last line logged and the process has ended
\* with a non-zero status; it never runs on without a listener.
C4_BindFailureIsFatal ==
    /\ bindCount <= 1
    /\ ~portFree => srvPc # "listening"
    /\ srvPc = "failed" =>
          /\ ~portFree
          /\ exited
          /\ exitCode # 0
          /\ Len(log) > 0 /\ log[Len(log)] = BindError

\* C4 witness: the bind failed after the tray menu had been built
C4_Witness ==
    /\ srvPc = "failed"
    /\ trayPc = "select"
    /\ menu = MenuTitles
    /\ exited

\* C5: a process that has ended has ended in one of two ways: main returned
\* after a handled Quit, with status 0, or the bind failed, with a non-zero
\* status; in every interleaving of the listener and the tray.
C5_ExitStatus ==
    exited =>
       \/ /\ exitCode = 0
          /\ mainPc = "exit" /\ quitCalled /\ HandledQuit
          /\ srvPc # "failed"
       \/ /\ exitCode # 0
          /\ srvPc = "failed"
          /\ mainPc # "exit"

\* C5 witness: Quit ended the process while the listener goroutine had not yet
\* tried to bind a port that is in use
C5_Witness ==
    /\ exited /\ exitCode = 0
    /\ srvPc = "starting"
    /\ ~portFree

(***************************************************************************)
(* Properties of getLANIP and of startup.                                  *)
(***************************************************************************)
\* a non-loopback IPv4 interface address
Qualifies(addr) ==
    addr.type = "IPNet" /\ addr.ip.fam = "v4" /\ addr.ip.b[1] # 127

QualifyingIndexes ==
    IF ifaces.err THEN {}
    ELSE { i \in 1..Len(ifaces.addrs) : Qualifies(ifaces.addrs[i]) }

\* C6: when the interface list holds a non-loopback IPv4 address, the host
\* main obtains is the first one in enumeration order, in dotted decimal, and
\* is not empty; [127.0.0.1, 192.168.1.5] yields "192.168.1.5".
C6_FirstLanAddress ==
    (mainPc # "main" /\ QualifyingIndexes # {}) =>
        LET k == CHOOSE i \in QualifyingIndexes :
                     \A j \in QualifyingIndexes : i <= j
        IN /\ lanIP = IP4String(ifaces.addrs[k].ip.b)
           /\ lanIP # ""
           /\ ifaces.addrs[k].ip = LanV4 => lanIP = "192.168.1.5"
           /\ ifaces.addrs[k].ip = OtherV4 => lanIP = "10.0.0.2"

\* C6 witness: a loopback address, an IPv6 address and then the LAN address
C6_Witness ==
    /\ mainPc # "main"
    /\ ifaces.addrs = <<IPNet(LoopbackV4), IPNet(V6("fe80::1")), IPNet(LanV4)>>
    /\ lanIP = "192.168.1.5"

\* C7: with no non-loopback IPv4 address, or with a failed enumeration, the
\* host is the empty string, nothing is logged and the process does not end
\* for that reason: startup goes on to start the server and build the tray.
C7_EmptyHostIsAValue ==
    QualifyingIndexes = {} =>
        /\ mainPc # "main" => lanIP = ""
        /\ log = <<>> \/ log = <<BindError>>
        /\ exited => srvPc = "failed"
        /\ mainPc = "startServer" => ENABLED MainStartServer
        /\ mainPc = "run" => ENABLED MainRun \/ exited
        /\ (mainPc = "loop" /\ trayPc = "idle") => ENABLED OnReady \/ exited

\* C7 witness: the enumeration failed, and the server was started and the menu
\* built all the same
C7_Witness ==
    /\ ifaces.err
    /\ lanIP = ""
    /\ srvPc = "listening"
    /\ trayPc = "select"
    /\ menu = MenuTitles

\* C8: with an empty host, handling Copy LAN URL has no effect: no clipboard
\* command is run with any value.
C8_EmptyHostCopyHasNoEffect ==
    (mainPc # "main" /\ lanIP = "") => clipCalls = <<>> /\ clipboard = ""

(***************************************************************************)
(* Properties of the file server.                                          *)
(***************************************************************************)
GetOfFile ==
    /\ req.method = "GET"
    /\ ~req.path.slash
    /\ IsFile(content, req.path.segs)

GetOfAbsent ==
    /\ req.method = "GET"
    /\ ~Exists(content, req.path.segs)

Front(q) == SubSeq(q, 1, Len(q) - 1)

\* C9 as stated: a GET of a path present in the content source is answered
\* with a success response whose body is the content of that path.
C9_GetReturnsContent ==
    GetOfFile => resp.status = 200 /\ resp.body = content[req.path.segs]

\* C9 as amended: a GET of a present path whose last segment is not
\* index.html is answered 200 with the content of that path; a present path
\* ending in /index.html is answered with a 301 redirect to "./", and the GET
\* of that directory path is answered 200 with the content of the index file.
C9_GetReturnsContentOrIndexRedirect ==
    GetOfFile =>
        IF Last(req.path.segs) = IndexPage
        THEN /\ resp = Redirect("./")
             /\ LET dir == [segs |-> Front(req.path.segs), slash |-> TRUE]
                    r == ServeHTTP(content, "GET", dir)
                IN r.status = 200 /\ r.body = content[req.path.segs]
        ELSE /\ resp.status = 200
             /\ resp.body = content[req.path.segs]

\* C9 witness: a nested file whose content differs from the root file of the
\* same name was served
C9_Witness ==
    /\ GetOfFile
    /\ req.path.segs = <<"assets", "app.js">>
    /\ IsFile(content, <<"app.js">>)
    /\ content[<<"app.js">>] # content[<<"assets", "app.js">>]
    /\ resp.status = 200
    /\ resp.body = content[<<"assets", "app.js">>]

\* C10 as stated: a GET of a path absent from the content source (neither a
\* file nor a directory of it) is answered not-found.
C10_AbsentIsNotFound == GetOfAbsent => resp.status = 404

\* C10 as amended: a GET of an absent path not ending in /index.html is
\* answered 404; one ending in /index.html is answered with a 301 redirect to
\* "./"; in neither case is the content of the index document, or of any file,
\* served.
C10_AbsentIsNotFoundOrIndexRedirect ==
    GetOfAbsent =>
        /\ IF HasIndexSuffix(req.path)
           THEN resp = Redirect("./")
           ELSE resp = NotFound
        /\ resp.kind \notin {"file", "listing"}
        /\ \A f \in DOMAIN content : resp.body # content[f]

\* C10 witness: a deep link was requested from a source that has an index
\* document, and was answered 404
C10_Witness ==
    /\ GetOfAbsent
    /\ req.path = [segs |-> <<"missing">>, slash |-> FALSE]
    /\ IsFile(content, <<IndexPage>>)
    /\ resp.status = 404


RequestOfFile ==
    /\ req.method # ""
    /\ ~req.path.slash
    /\ IsFile(content, req.path.segs)

\* C11 as stated: a request whose method is not GET is never answered with the
\* static content of its path, whether the path is present or absent.
C11_OnlyGetServesContent ==
    (req.method \notin {"", "GET"}) =>
        /\ resp.kind \notin {"file", "listing"}
        /\ RequestOfFile => resp.body # content[req.path.segs]

\* C11 as amended: the file server does not look at the method, except that a
\* HEAD request gets no body: a request with a method other than GET and HEAD
\* (POST) for a present path is answered like the GET of that path, 200 with
\* the content of the file unless the path ends in /index.html (301); a HEAD
\* request gets the same status with an empty body; an absent path is answered
\* without any file content, whatever the method.
C11_MethodIsIgnoredExceptHead ==
    /\ (RequestOfFile /\ ~HasIndexSuffix(req.path)) =>
          /\ resp.status = 200 /\ resp.kind = "file"
          /\ resp.body =
                IF req.method = "HEAD" THEN "" ELSE content[req.path.segs]
    /\ (RequestOfFile /\ HasIndexSuffix(req.path)) => resp = Redirect("./")
    /\ (req.method # "" /\ ~Exists(content, req.path.segs)) =>
          resp.kind \notin {"file", "listing"}

\* C11 witness: a POST of a present file was answered with the file's content
C11_Witness ==
    /\ req = [method |-> "POST", path |-> [segs |-> <<"app.js">>, slash |-> FALSE]]
    /\ IsFile(content, <<"app.js">>)
    /\ resp.status = 200
    /\ resp.body = content[<<"app.js">>]


CountOf(q, x) == Cardinality({ i \in DOMAIN q : q[i] = x })

OpensOf(t) == Cardinality({ i \in DOMAIN opened : opened[i].target = t })

At(pcs) == IF trayPc \in pcs THEN 1 ELSE 0

\* C12: every handled Open App action has called openBrowser exactly once,
\* with the fixed local URL http://localhost:8000, whatever the LAN address
\* is (the empty host included); the LAN URL is never what is opened.
C12_OpenAppOpensLocalURL ==
    /\ OpensOf(LocalURL) = CountOf(handled, "OpenApp") - At({"open"})
    /\ \A i \in DOMAIN opened : opened[i].target \in {LocalURL, QRFile}
    /\ LocalURL = "http://localhost:8000"

\* C12 witness: with an empty LAN host, one Open App was handled and the
\* local URL was opened once
C12_Witness ==
    /\ mainPc # "main" /\ lanIP = ""
    /\ handled = <<"OpenApp">> /\ completed = 1
    /\ opened = <<[target |-> LocalURL, res |-> "started"]>>

\* C13 as stated: every handled Copy LAN URL action gives the clipboard
\* command exactly the LAN URL computed at startup, on linux, darwin and
\* windows alike, with no character added or removed.
C13_ClipboardGetsExactlyLanURL ==
    \A i \in DOMAIN clipCalls : clipCalls[i] = lanURL

\* C14: Show QR first calls the QR encoder with the LAN URL to write
\* lan_qr.png and only then calls openBrowser with that file: the file is
\* opened only from the position that follows the write, that position is
\* entered only by the write step of a Show QR (which wrote the code of the
\* LAN URL or returned an error), and every handled Show QR has opened the
\* file exactly once.
C14_QrWrittenBeforeOpened ==
    /\ [](OpensOf(QRFile) =
              CountOf(handled, "ShowQR") - At({"qrWrite", "qrOpen"}))
    /\ [](qrFile.written => qrFile.url = lanURL)
    /\ [][(OpensOf(QRFile)' # OpensOf(QRFile)) =>
              /\ trayPc = "qrOpen"
              /\ opened' = Append(opened, opened'[Len(opened')])
              /\ opened'[Len(opened')].target = QRFile]_vars
    /\ [][(trayPc' = "qrOpen" /\ trayPc # "qrOpen") =>
              /\ trayPc = "qrWrite"
              /\ handled[Len(handled)] = "ShowQR"
              /\ \/ qrFile' = [written |-> TRUE, url |-> lanURL]
                 \/ failures' = Append(failures, "qr")]_vars

\* C14 witness: a Show QR has written the code of the LAN URL and then opened
\* the file
C14_Witness ==
    /\ handled = <<"ShowQR">> /\ completed = 1
    /\ lanIP # ""
    /\ qrFile = [written |-> TRUE, url |-> lanURL]
    /\ opened = <<[target |-> QRFile, res |-> "started"]>>


\* a step in which an external call returned an error
FailureStep == failures' # failures

\* C15: the failure of an external call (opener, clipboard command, QR write)
\* is not fatal: the step in which it fails leaves the process running and
\* the listener's state as it was, loses no waiting click, and leaves the
\* dispatch goroutine in its loop (back at the select, or at the next
\* statement of the Show QR case); afterwards every waiting click, a repeat
\* of the failed action included, can be received as before.
C15_ExternalFailureIsNotFatal ==
    /\ [][FailureStep =>
              /\ ~exited'
              /\ UNCHANGED <<exitVars, srvVars, mainVars, quitCalled, pending>>
              /\ trayPc' \in {"select", "qrOpen"}]_vars
    /\ [](\A a \in MenuActions :
              (failures # <<>> /\ ~exited /\ trayPc = "select" /\ pending[a] > 0)
                  => ENABLED Dequeue(a))

\* C15 witness: with the listener running, an Open App failed and its repeat
\* was then handled and started the opener
C15_Witness ==
    /\ ~exited /\ srvPc = "listening" /\ trayPc = "select"
    /\ failures = <<"open">>
    /\ handled = <<"OpenApp", "OpenApp">> /\ completed = 2
    /\ opened = << [target |-> LocalURL, res |-> "failed"],
                   [target |-> LocalURL, res |-> "started"] >>

\* log lines other than the listener's
FailureLogLines == Cardinality({ i \in DOMAIN log : log[i] # BindError })

\* C16 as stated: every failure of an external call (open, clipboard, QR step)
\* has been logged by the time the next action can be received.
C16_EveryFailureIsLogged ==
    (trayPc = "select") => FailureLogLines = Len(failures)


\* a step of the dispatch goroutine inside a select case
HandlerStep ==
    \/ HandleOpen
    \/ HandleCopyStart
    \/ HandleQrWrite
    \/ HandleQrOpen
    \/ HandleQuit

\* C17: startServer does not block: it returns as soon as the listener
\* goroutine is launched, before any bind was attempted, and neither the
\* construction of the tray nor the handling of its actions waits for the
\* bind: each of main's next steps, onReady, the receive of a waiting click
\* and the steps of its handler are enabled while the listener is Starting.
C17_StartServerDoesNotBlock ==
    /\ [][(mainPc = "startServer" /\ mainPc' # mainPc) =>
              /\ mainPc' = "run"
              /\ srvPc' = "starting"
              /\ bindCount' = 0
              /\ ~exited']_vars
    /\ []((srvPc = "starting" /\ ~exited) =>
              /\ (mainPc = "run" => ENABLED MainRun)
              /\ (mainPc = "loop" /\ trayPc = "idle" => ENABLED OnReady)
              /\ \A a \in MenuActions :
                    (trayPc = "select" /\ pending[a] > 0) => ENABLED Dequeue(a)
              /\ (trayPc \in {"open", "copy", "qrWrite", "qrOpen", "quit"}
                    => ENABLED HandlerStep))

\* C17 witness: the tray has its four entries and an Open App was handled to
\* its end while the listener had not yet attempted the bind
C17_Witness ==
    /\ srvPc = "starting" /\ bindCount = 0 /\ ~exited
    /\ menu = MenuTitles
    /\ handled = <<"OpenApp">> /\ completed = 1
    /\ Len(opened) = 1


\* The service state of the program, which has no variable for it: Stopped
\* once systray.Quit() was called or the process has ended, Running while the
\* listener is bound, Starting before.
ServiceState ==
    IF exited \/ quitCalled THEN "Stopped"
    ELSE IF srvPc = "listening" THEN "Running"
    ELSE "Starting"

ServiceStep(from, to) == ServiceState = from /\ ServiceState' = to

\* C18 as stated: the service state changes only from Starting to Running and
\* from Running to Stopped; Stopped is never entered directly from Starting.
C18_OnlyStartingRunningStopped ==
    [][(ServiceState' # ServiceState) =>
           \/ ServiceStep("Starting", "Running")
           \/ ServiceStep("Running", "Stopped")]_vars

\* C18 as amended: the service state changes only from Starting to Running,
\* by a successful bind; from Running to Stopped, by Quit; and from Starting
\* directly to Stopped, by the fatal bind error (exit status 1) or by a Quit
\* handled before the bind.  Stopped is never left.
C18_ServiceStateTransitions ==
    [][(ServiceState' # ServiceState) =>
           \/ /\ ServiceStep("Starting", "Running")
              /\ portFree /\ srvPc = "starting" /\ bindCount' = bindCount + 1
           \/ /\ ServiceStep("Running", "Stopped")
              /\ trayPc = "quit" /\ quitCalled' /\ ~exited'
           \/ /\ ServiceStep("Starting", "Stopped")
              /\ \/ trayPc = "quit" /\ quitCalled' /\ ~exited'
                 \/ /\ ~portFree /\ srvPc = "starting" /\ srvPc' = "failed"
                    /\ exited' /\ exitCode' = 1]_vars

\* C18 witness: the tray was built while Starting, then the bind failed and
\* the service is Stopped without having been Running
C18_Witness ==
    /\ ServiceState = "Stopped"
    /\ srvPc = "failed" /\ bindCount = 1 /\ ~quitCalled
    /\ menu = MenuTitles


\* a step the dispatch goroutine can take by itself; HandleCopyDone is not
\* one: it is taken when the clipboard command ends
LoopStep ==
    \/ \E a \in MenuActions : Dequeue(a)
    \/ HandlerStep

\* C19 as stated: the external calls of Open App, Copy LAN URL and Show QR
\* are launched and not waited for: while a click is waiting, the dispatch
\* goroutine can always go on by itself to receive it, whether or not an
\* external utility it has launched ever ends.
C19_LoopNeverWaitsForExternal ==
    (~exited /\ trayPc \notin {"idle", "done"}
        /\ \E a \in MenuActions : pending[a] > 0) => ENABLED LoopStep


\* the LAN URL of the host's interface addresses as they are now
CurrentURL == SprintfURL(getLANIP(ifaces), port)

\* C20: the LAN address is looked up exactly once, in main before the server
\* is started and before the tray exists; lanURL is written in that step
\* only, so every Copy LAN URL and every Show QR uses the URL of startup,
\* also after the host's interface addresses have changed.
C20_LanURLWrittenOnce ==
    /\ [][(lanURL' # lanURL \/ lanIP' # lanIP) =>
              /\ mainPc = "main" /\ mainPc' # "main"
              /\ srvPc = "none" /\ trayPc = "idle" /\ menu = <<>>
              /\ lanURL' = CurrentURL]_vars
    /\ [][(mainPc # "main") =>
              /\ mainPc' # "main"
              /\ lanURL' = lanURL]_vars
    /\ [](\A i \in DOMAIN clipCalls : clipCalls[i] = ClipInput(GOOS, lanURL))
    /\ [](qrFile.written => qrFile.url = lanURL)
    /\ [](mainPc = "main" => clipCalls = <<>> /\ ~qrFile.written)

\* C20 witness: after the interface addresses changed, a Copy LAN URL and a
\* Show QR both used the URL computed at startup
C20_Witness ==
    /\ mainPc # "main"
    /\ lanURL # CurrentURL
    /\ handled = <<"CopyURL", "ShowQR">>
    /\ clipCalls = <<ClipInput(GOOS, lanURL)>>
    /\ qrFile = [written |-> TRUE, url |-> lanURL]


\* the position of main() in its sequence of statements
MainRank ==
    CASE mainPc = "main" -> 0
      [] mainPc = "startServer" -> 1
      [] mainPc = "run" -> 2
      [] mainPc = "loop" -> 3
      [] mainPc = "exit" -> 4

\* C21: startup goes in the order LAN address, listener goroutine, tray: the
\* listener is launched only once the LAN URL is computed and printed, the
\* menu is built only once the listener goroutine is launched and main is in
\* the tray's loop; main goes through its statements one after another and
\* leaves the loop only after Quit; the process ends only by main's return
\* after a handled Quit (status 0) or by the failed bind (status 1).
C21_StartupOrder ==
    /\ [][(mainPc' # mainPc) => MainRank' = MainRank + 1]_vars
    /\ [](srvPc # "none" =>
              /\ MainRank >= 2
              /\ lanURL = SprintfURL(lanIP, port)
              /\ stdout = <<"Serving at: " \o lanURL>>)
    /\ [](srvPc = "none" => menu = <<>> /\ trayPc = "idle" /\ lanURL \in {"", SprintfURL(lanIP, port)})
    /\ [](menu # <<>> => MainRank >= 3 /\ srvPc # "none")
    /\ [](mainPc = "main" => lanURL = "" /\ stdout = <<>>)
    /\ [](mainPc = "exit" => exited /\ quitCalled /\ trayPc = "done")
    /\ [](exited =>
              \/ /\ mainPc = "exit" /\ exitCode = 0
                 /\ HandledQuit
              \/ /\ srvPc = "failed" /\ exitCode = 1 /\ mainPc # "exit")

\* C21 witness: main is blocked in the tray's loop with the listener bound;
\* an Open App and a Show QR were handled and the process is still running
C21_Witness ==
    /\ mainPc = "loop" /\ ~exited /\ srvPc = "listening"
    /\ trayPc = "select" /\ ~quitCalled
    /\ handled = <<"OpenApp", "ShowQR">> /\ completed = 2


EmptyHostURL == "http://:8000"

\* C22: when no interface address qualifies, the LAN URL is the malformed
\* string http://:8000, and Copy LAN URL and Show QR are not held back: the
\* clipboard command is run on that string (or fails to start) and the QR
\* encoder is called on it (or fails), like for any other URL.
C22_EmptyHostProceeds ==
    /\ []((QualifyingIndexes = {} /\ mainPc # "main") =>
              /\ lanIP = "" /\ lanURL = EmptyHostURL
              /\ (trayPc = "copy" /\ ~exited => ENABLED HandleCopyStart)
              /\ (trayPc = "qrWrite" /\ ~exited => ENABLED HandleQrWrite)
              /\ \A i \in DOMAIN clipCalls :
                    clipCalls[i] = ClipInput(GOOS, EmptyHostURL)
              /\ (qrFile.written => qrFile.url = EmptyHostURL))
    /\ [][(lanIP = "" /\ trayPc = "copy" /\ trayPc' # "copy") =>
              \/ clipCalls' = Append(clipCalls, ClipInput(GOOS, EmptyHostURL))
              \/ failures' = Append(failures, "clip")]_vars
    /\ [][(lanIP = "" /\ trayPc = "qrWrite" /\ trayPc' # "qrWrite") =>
              \/ qrFile' = [written |-> TRUE, url |-> EmptyHostURL]
              \/ failures' = Append(failures, "qr")]_vars

\* C22 witness: with only a loopback address, a Copy LAN URL and a Show QR
\* were handled with http://:8000
C22_Witness ==
    /\ ifaces = [err |-> FALSE, addrs |-> <<IPNet(LoopbackV4)>>]
    /\ handled = <<"CopyURL", "ShowQR">> /\ completed = 2
    /\ clipCalls = <<ClipInput(GOOS, EmptyHostURL)>>
    /\ clipboard = ClipInput(GOOS, EmptyHostURL)
    /\ qrFile = [written |-> TRUE, url |-> EmptyHostURL]
    /\ Len(opened) = 1 /\ opened[1].target = QRFile


\* The tray's state, read off the dispatch goroutine: Idle before onReady has
\* started it, Running while it is in its loop, Ended once it has returned.
TrayState ==
    CASE trayPc = "idle" -> "Idle"
      [] trayPc = "done" -> "Ended"
      [] OTHER -> "Running"

\* C23: the tray leaves Idle only with all four menu entries constructed,
\* "Open App", "Copy LAN URL", "Show QR Code" and "Quit", one per menu
\* action; while it is Idle no action is handled and no effect of an action
\* exists; Idle is never entered again, and once the Quit case has run the
\* tray is neither Idle nor Running any more.
C23_TrayIdleThenRunning ==
    /\ [](TrayState # "Idle" =>
              /\ menu = <<"Open App", "Copy LAN URL", "Show QR Code", "Quit">>
              /\ Len(menu) = Cardinality(MenuActions))
    /\ [](TrayState = "Idle" =>
              /\ handled = <<>> /\ completed = 0 /\ ~quitCalled
              /\ opened = <<>> /\ clipCalls = <<>> /\ ~qrFile.written
              /\ \A a \in MenuActions : ~ENABLED Dequeue(a))
    /\ [][(TrayState' # TrayState) =>
              \/ /\ TrayState = "Idle" /\ TrayState' = "Running"
                 /\ menu' = MenuTitles
              \/ /\ TrayState = "Running" /\ TrayState' = "Ended"
                 /\ trayPc = "quit" /\ quitCalled']_vars
    /\ [](quitCalled => TrayState = "Ended")

\* C23 witness: after Open App and Quit were handled with the four entries
\* in the menu, the tray has ended
C23_Witness ==
    /\ TrayState = "Ended"
    /\ menu = MenuTitles /\ Len(menu) = 4
    /\ handled = <<"OpenApp", "Quit">> /\ completed = 2


\* C24: once the listener has bound, no step of the program closes the
\* socket: the listener stays bound until the process ends; the step that
\* handles Quit leaves the listener as it is, and between that step and the
\* end of the process the server still answers requests.
C24_ListenerOpenUntilExit ==
    /\ [][(srvPc = "listening") => srvPc' = "listening"]_vars
    /\ [][(quitCalled' # quitCalled) => srvVars' = srvVars /\ ~exited']_vars
    /\ []((srvPc = "listening" /\ ~exited /\ served < MaxRequests) =>
              \A p \in ProcPathValues : ENABLED Serve("GET", p))
    /\ []((quitCalled /\ srvPc = "listening" /\ ~exited) => ENABLED MainReturn)

\* C24 witness: Quit was handled, the process has not ended yet, the listener
\* is bound and GET / was answered with the index document
C24_Witness ==
    /\ quitCalled /\ trayPc = "done" /\ ~exited
    /\ srvPc = "listening"
    /\ served = 1 /\ req = [method |-> "GET", path |-> RootPath]
    /\ resp.status = 200 /\ resp.body = IndexBody


\* the request path of the QR image's file name
QRPath == [segs |-> <<QRFile>>, slash |-> FALSE]

\* C25: no step changes the static content source: whatever request is
\* served and whatever menu action is handled, the mapping from path to
\* bytes stays as it was at startup; the image that Show QR writes is not
\* part of it (its name is answered not-found); and the listener and the
\* tray work on separate state: a step of the listener changes nothing of
\* the tray's or main's state, a step of the tray nothing of the listener's.
C25_ContentIsNeverChanged ==
    /\ [][content' = content]_vars
    /\ [](ServeHTTP(content, "GET", QRPath) = NotFound)
    /\ [][(srvPc # "none" /\ srvVars' # srvVars) =>
              UNCHANGED <<mainVars, trayVars, fxVars>>]_vars
    /\ [][(trayVars' # trayVars \/ fxVars' # fxVars) =>
              UNCHANGED <<srvVars, content>>]_vars
    /\ [](req.method # "" => resp = ServeHTTP(ScenarioContent, req.method, req.path))

\* C25 witness: after a Show QR has written lan_qr.png, GET / is still
\* answered with the index document of the unchanged content source
C25_Witness ==
    /\ handled = <<"ShowQR">> /\ completed = 1
    /\ qrFile.written
    /\ content = ScenarioContent
    /\ served = 1 /\ req.path = RootPath /\ resp.body = IndexBody


\* Show QR actions whose write of the image has been attempted
QrWriteAttempts == CountOf(handled, "ShowQR") - At({"qrWrite"})

\* Show QR actions whose write of the image succeeded
QrWrites == QrWriteAttempts - CountOf(failures, "qr")

\* C26: Show QR is idempotent on the file: after one or more Show QR whose
\* write succeeded, lan_qr.png holds the code of the LAN URL and nothing
\* else, however many times it was written; a further successful write
\* replaces the file by the same content; the file exists only if a write
\* succeeded.
C26_QrFileIsOverwritten ==
    /\ [](QrWrites >= 1 => qrFile = [written |-> TRUE, url |-> lanURL])
    /\ [](QrWrites = 0 => qrFile = NoFile)
    /\ [][(qrFile.written /\ trayPc = "qrWrite" /\ trayPc' # trayPc) =>
              qrFile' = qrFile]_vars

\* C26 witness: two Show QR have written the image, which holds the code of
\* the LAN URL once
C26_Witness ==
    /\ handled = <<"ShowQR", "ShowQR">> /\ completed = 2
    /\ QrWrites = 2
    /\ lanIP # ""
    /\ qrFile = [written |-> TRUE, url |-> lanURL]


\* the service has stopped: the bind has failed, or Quit was handled, or the
\* process has ended
Stopped == ServiceState = "Stopped" \/ srvPc = "failed"

\* C27: once the service has stopped, by the fatal bind error or by a handled
\* Quit, no menu action is received any more and no effect of Open App, Copy
\* LAN URL or Show QR occurs: no opener or clipboard command is run, the
\* clipboard and the image file stay as they are; clicks that were waiting
\* are never handled.
C27_NoHandlerAfterStopped ==
    /\ [][Stopped =>
              /\ Stopped'
              /\ UNCHANGED <<handled, completed, opened, clipCalls, clipboard,
                             qrFile, failures>>]_vars
    /\ [](Stopped => \A a \in MenuActions : ~ENABLED Dequeue(a))
    /\ [](Stopped => ~ENABLED HandlerStep /\ ~ENABLED HandleCopyDone)

\* C27 witness: the bind failed while an Open App click was waiting and a
\* Show QR had been handled; the click is left unhandled
C27_Witness ==
    /\ srvPc = "failed" /\ exited /\ exitCode = 1
    /\ pending["OpenApp"] = 1
    /\ handled = <<"ShowQR">> /\ completed = 1
    /\ opened = <<[target |-> QRFile, res |-> "started"]>>


\* the step in which qrcode.WriteFile returns an error
QrWriteFails == trayPc = "qrWrite" /\ failures' = Append(failures, "qr")

\* C28: when the write of lan_qr.png fails during a Show QR, the error is
\* dropped (nothing is logged, the file is left as it was, missing or holding
\* an earlier image, the process goes on) and the handler goes on to call
\* openBrowser on lan_qr.png all the same.
C28_QrWriteErrorIsDiscarded ==
    /\ [][QrWriteFails =>
              /\ trayPc' = "qrOpen"
              /\ UNCHANGED <<log, qrFile, exitVars, opened, completed>>]_vars
    /\ []((trayPc = "qrOpen" /\ ~exited) => ENABLED HandleQrOpen)
    /\ [][(trayPc = "qrOpen" /\ trayPc' # trayPc) =>
              /\ Len(opened') = Len(opened) + 1
              /\ opened'[Len(opened')].target = QRFile
              /\ trayPc' = "select"]_vars
    /\ [](OpensOf(QRFile) + At({"qrOpen"}) = QrWriteAttempts)

\* C28 witness: the only write of the image failed, nothing was logged, and
\* the opener was started on the missing lan_qr.png
C28_Witness ==
    /\ handled = <<"ShowQR">> /\ completed = 1
    /\ failures = <<"qr">> /\ log = <<>>
    /\ qrFile = NoFile
    /\ opened = <<[target |-> QRFile, res |-> "started"]>>


\* C29: in the filesystem build a failed read of tray_icon.png is not fatal:
\* onReady leaves the icon unset, logs nothing, and goes on to add the four
\* menu entries and to start the dispatch goroutine, exactly as when the
\* icon was read; clicks are then received as usual.
C29_IconReadFailureIsNotFatal ==
    /\ [][(trayPc = "idle" /\ trayPc' # "idle") =>
              /\ icon' \in {"set", "unset"}
              /\ menu' = MenuTitles
              /\ trayPc' = "select"
              /\ UNCHANGED <<exitVars, log, mainVars, srvVars, fxVars>>]_vars
    /\ []((mainPc = "loop" /\ trayPc = "idle" /\ ~exited) =>
              /\ ENABLED (OnReadyFile /\ icon' = "unset" /\ trayPc' = "select")
              /\ ENABLED (OnReadyFile /\ icon' = "set" /\ trayPc' = "select"))
    /\ [][(exited' # exited) => (srvPc' = "failed" \/ quitCalled)]_vars
    /\ [](trayPc = "idle" => icon = "unset" /\ menu = <<>>)
    /\ [](trayPc # "idle" => menu = MenuTitles)
    /\ [][icon' # icon => trayPc = "idle"]_vars
    /\ [](\A a \in MenuActions :
              (icon = "unset" /\ trayPc = "select" /\ pending[a] > 0 /\ ~exited)
                  => ENABLED Dequeue(a))

\* C29 witness: the icon could not be read; the four entries exist and an
\* Open App was then handled to its end
C29_Witness ==
    /\ icon = "unset" /\ ~exited
    /\ menu = MenuTitles /\ trayPc = "select"
    /\ handled = <<"OpenApp">> /\ completed = 1
    /\ opened = <<[target |-> LocalURL, res |-> "started"]>>


\* the state of the App component that deletePost can change
AppState == <<store, error, deletingPostIds, posts>>

\* call i of deletePost has got past its early return and has not ended
InFlight(i) == delCalls[i].pc \in {"track", "del", "await", "then", "catch", "finally"}

\* call i ends in this step
Ends(i) ==
    /\ i \in DOMAIN delCalls /\ delCalls[i].pc # "done"
    /\ delCalls'[i].pc = "done"

\* C30: deletePost(postId) puts postId into deletingPostIds before it calls
\* store.posts.del, and takes it out again when the delete has settled,
\* fulfilled or rejected: a call that has settled goes on to its end, and at
\* its end postId is not in deletingPostIds; after a rejected delete the
\* error is "Failed to delete post" when the call ends; a call with no store
\* or with an empty postId changes nothing and issues no delete.
C30_DeletePostTracksDeletion ==
    /\ [][(delIssued' # delIssued) =>
              /\ delIssued' = Append(delIssued, delIssued'[Len(delIssued')])
              /\ delIssued'[Len(delIssued')] \in deletingPostIds
              /\ delIssued'[Len(delIssued')] # ""
              /\ store # "null"]_vars
    /\ [][\A i \in 1..MaxDeletes : Ends(i) =>
              /\ delCalls[i].res \in {"ok", "failed"}
              /\ delCalls[i].postId \notin deletingPostIds'
              /\ (delCalls[i].res = "failed" => error' = DeleteError)]_vars
    /\ [](\A i \in DOMAIN delCalls :
              delCalls[i].pc \in {"then", "catch", "finally"} =>
                  /\ jsTask = i
                  /\ ENABLED (DelThen(i) \/ DelCatch(i) \/ DelFinally(i)))
    /\ [](\A id \in deletingPostIds :
              \E i \in DOMAIN delCalls : delCalls[i].postId = id /\ InFlight(i))
    /\ [][(Len(delCalls') > Len(delCalls)
              /\ (store = "null" \/ delCalls'[Len(delCalls')].postId = "")) =>
              /\ delCalls'[Len(delCalls')].pc = "returned"
              /\ UNCHANGED <<AppState, dbPosts, delIssued, timers, searches, jsTask>>]_vars
    /\ [][\A i \in DOMAIN delCalls :
              delCalls[i].pc = "returned" => delCalls'[i] = delCalls[i]]_vars

\* C30 witness: a delete of p1 was issued and rejected and the call has
\* ended: p1 is still in the database, the error is set and p1 is no longer
\* marked
C30_Witness ==
    /\ store = "db"
    /\ delCalls = <<[postId |-> "p1", pc |-> "done", res |-> "failed"]>>
    /\ delIssued = <<"p1">>
    /\ "p1" \in dbPosts
    /\ error = DeleteError
    /\ deletingPostIds = {}


\* initializePeer has failed at one of its awaited steps
InitFailed == initPc = "failed"

\* the messages that the catch block of initializePeer can set
InitErrorMessages ==
    { IF e.isError THEN e.message ELSE InitError : e \in ThrownValues }

\* C31: when initializePeer fails at Peerbit.create, at peer.bootstrap or at
\* peer.open, the step that fails sets isLoading to false and error to a
\* message (not null) and leaves isConnected, peer and store as they were;
\* from then on the state stays isLoading = false, error not null,
\* isConnected = false, peer = null, store = null; and isConnected is true
\* only together with a peer and a store that are not null.
C31_InitFailureLeavesDisconnected ==
    /\ [][(InitFailed' /\ ~InitFailed) =>
              /\ initPc \in {"create", "bootstrap", "open"}
              /\ error' \in InitErrorMessages /\ error' # "null"
              /\ isLoading' = FALSE
              /\ UNCHANGED <<isConnected, peer, store, posts, initDone>>]_vars
    /\ [](InitFailed =>
              /\ isLoading = FALSE
              /\ error # "null"
              /\ isConnected = FALSE /\ peer = "null" /\ store = "null"
              /\ initDone < Len(InitSteps))
    /\ [][InitFailed => InitFailed']_vars
    /\ [](isConnected => peer # "null" /\ store # "null")
    /\ [][(isConnected' /\ ~isConnected) =>
              /\ initPc = "open" /\ initDone' = Len(InitSteps)
              /\ peer' = "peer" /\ store' = "db" /\ isLoading' = FALSE]_vars
    /\ [](initPc \in {"create", "bootstrap", "open"} =>
              /\ \A e \in ThrownValues : ENABLED InitReject(e)
              /\ ~isConnected /\ peer = "null" /\ store = "null" /\ isLoading)

\* C31 witness: Peerbit.create and peer.bootstrap were fulfilled and
\* peer.open was rejected with a value that is not an Error; a deletePost
\* called afterwards returned at once
C31_Witness ==
    /\ InitFailed /\ initDone = 2
    /\ error = InitError /\ isLoading = FALSE
    /\ isConnected = FALSE /\ peer = "null" /\ store = "null"
    /\ delCalls = <<[postId |-> "p1", pc |-> "returned", res |-> ""]>>

=============================================================================
